---------------------------- MODULE Spec2Model ----------------------------
(***************************************************************************)
(* petabuf: a pipe buffer that spools stdin into a table of pages (kept in *)
(* anonymous memory while the budget lasts, in files under /tmp after      *)
(* that) and copies them to stdout.  The module follows src/petabuf.c:     *)
(* the page table, the three counters, the two cursors and the select      *)
(* loop of main.                                                           *)
(*                                                                         *)
(* Naming follows the source: rpos is the cursor at which bytes READ from  *)
(* stdin are deposited, wpos the cursor from which bytes are WRITTEN to    *)
(* stdout.                                                                 *)
(***************************************************************************)
EXTENDS Integers, Sequences, FiniteSets, TLC

\* Model sizes.  The source has PAGESZ = 1 << 24 and TABLESZ = 1 << 26; the
\* model keeps the names and scales both down.
PAGESZ == 2
TABLESZ == 4
\* get_memsize() reports 2 * PAGESZ * b bytes for some b in 0..MaxBudget.
MaxBudget == 2

PAGE_MAPPED == 1
PAGE_ONDISK == 2

\* size_t, scaled to 16 bits: decrementing 0 wraps to SIZE_MAX.
SIZE_MAX == (2 ^ 16) - 1

VARIABLES
    states,     \* states[idx]: bitset over PAGE_MAPPED, PAGE_ONDISK
    pages,      \* pages[idx]: the bytes seen through the mapping, NoMap if none
    files,      \* files[idx]: the bytes of /tmp/petabuf.<idx>, NoFile if absent
    nmapped, nondisk, nfree,
    headroom,   \* TRUE while the headroom allocation is held
    rpos, wpos,
    ntoread, ntowrite,
    read_fds, write_fds,   \* STDIN_FILENO / STDOUT_FILENO set in the fd_sets
    pc,         \* position in main: "start", "loop", "read", "write"
    status,     \* "running", "exit0", "fatal" (err/errx), "abort" (assert)
    errmsg,     \* the message of err/errx
    memsize,    \* what get_memsize() returned
    slen,       \* length of the stream the producer sends before closing
    input,      \* history: the bytes read() has delivered so far
    output,     \* history: the bytes write() has accepted so far
    eof,        \* history: read() has returned 0
    nanon,      \* history: pages materialised in anonymous memory
    nspill,     \* history: pages materialised through the ondisk path
    nmemfreed,  \* history: memory-only pages released by page_free
    nremap,     \* history: pins that re-mapped an existing spool file
    pincalls,   \* history: the indices page_pin has been called with
    noom,       \* history: anonymous allocations that failed with ENOMEM
    nheadfree,  \* history: calls of free(headroom)
    rcross,     \* history: page crossings of rpos
    wcross      \* history: page crossings of wpos

vars == <<states, pages, files, nmapped, nondisk, nfree, headroom, rpos, wpos,
          ntoread, ntowrite, read_fds, write_fds, pc, status, errmsg, memsize,
          slen, input, output, eof, nanon, nspill, nmemfreed, nremap, pincalls,
          noom, nheadfree, rcross, wcross>>

Slots == 0 .. (TABLESZ - 1)

\* A fresh mapping (anonymous, or of a file just grown by ftruncate) is
\* zero-filled.  Offsets are 0-based in the source, 1-based in the tuple.
ZeroPage == [o \in 1 .. PAGESZ |-> 0]
NoMap == <<>>
NoFile == <<>>

\* The producer's stream.  The program never inspects a byte, so the stream
\* with pairwise distinct bytes (none of them the 0 of a fresh page) stands
\* for every stream: byte number k is k.
Stream(k) == k

Min(a, b) == IF a < b THEN a ELSE b

\* states[idx] & bit, |= bit, &= ~bit
HasBit(s, bit) == (s \div bit) % 2 = 1
SetBit(s, bit) == IF HasBit(s, bit) THEN s ELSE s + bit
ClearBit(s, bit) == IF HasBit(s, bit) THEN s - bit ELSE s

\* x++ and x-- on a size_t
Inc(x) == IF x = SIZE_MAX THEN 0 ELSE x + 1
Dec(x) == IF x = 0 THEN SIZE_MAX ELSE x - 1

\* The page store as one value, so that main's calls compose.
\* ok is FALSE once an assert of the source has failed.
Store ==
    [states |-> states, pages |-> pages, files |-> files,
     nmapped |-> nmapped, nondisk |-> nondisk, nfree |-> nfree,
     headroom |-> headroom, nanon |-> nanon, nspill |-> nspill,
     nmemfreed |-> nmemfreed, nremap |-> nremap, pincalls |-> pincalls,
     noom |-> noom, nheadfree |-> nheadfree, ok |-> TRUE]

SetStore(s) ==
    /\ states' = s.states
    /\ pages' = s.pages
    /\ files' = s.files
    /\ nmapped' = s.nmapped
    /\ nondisk' = s.nondisk
    /\ nfree' = s.nfree
    /\ headroom' = s.headroom
    /\ nanon' = s.nanon
    /\ nspill' = s.nspill
    /\ nmemfreed' = s.nmemfreed
    /\ nremap' = s.nremap
    /\ pincalls' = s.pincalls
    /\ noom' = s.noom
    /\ nheadfree' = s.nheadfree

\* page_pin: the "new page on disk" branch (label ondisk).
PinOnDisk(s, idx) ==
    [s EXCEPT !.files[idx] = ZeroPage,
              !.pages[idx] = ZeroPage,
              !.states[idx] = SetBit(SetBit(@, PAGE_MAPPED), PAGE_ONDISK),
              !.nmapped = Inc(@),
              !.nondisk = Inc(@),
              !.nspill = @ + 1]

\* page_pin opening an existing spool file with O_TRUNC, as the ondisk
\* branch does: the file comes back empty and is mapped as it is.
page_pin_trunc(s, idx, enomem) ==
    IF idx \notin Slots THEN [s EXCEPT !.ok = FALSE]
    ELSE IF HasBit(s.states[idx], PAGE_MAPPED) THEN s
    ELSE IF HasBit(s.states[idx], PAGE_ONDISK) THEN
        [s EXCEPT !.files[idx] = ZeroPage,
                  !.pages[idx] = ZeroPage,
                  !.states[idx] = SetBit(@, PAGE_MAPPED),
                  !.nmapped = Inc(@),
                  !.nremap = @ + 1]
    ELSE IF s.nfree # 0 /\ ~enomem THEN
        [s EXCEPT !.pages[idx] = ZeroPage,
                  !.states[idx] = SetBit(@, PAGE_MAPPED),
                  !.nmapped = Inc(@),
                  !.nfree = Dec(@),
                  !.nanon = @ + 1]
    ELSE IF s.nfree # 0
    THEN PinOnDisk([s EXCEPT !.nfree = 0, !.headroom = FALSE,
                             !.noom = @ + 1], idx)
    ELSE PinOnDisk(s, idx)

\* page_pin without the test of nfree: a new page goes to anonymous memory
\* whenever the mmap succeeds.
page_pin_nobudget(s, idx, enomem) ==
    IF idx \notin Slots THEN [s EXCEPT !.ok = FALSE]
    ELSE IF HasBit(s.states[idx], PAGE_MAPPED) THEN s
    ELSE IF HasBit(s.states[idx], PAGE_ONDISK) THEN
        [s EXCEPT !.pages[idx] = s.files[idx],
                  !.states[idx] = SetBit(@, PAGE_MAPPED),
                  !.nmapped = Inc(@),
                  !.nremap = @ + 1]
    ELSE IF enomem
    THEN PinOnDisk([s EXCEPT !.nfree = 0, !.headroom = FALSE,
                             !.noom = @ + 1], idx)
    ELSE [s EXCEPT !.pages[idx] = ZeroPage,
                   !.states[idx] = SetBit(@, PAGE_MAPPED),
                   !.nmapped = Inc(@),
                   !.nfree = Dec(@),
                   !.nanon = @ + 1]

\* The ENOMEM branch with free(headroom) unguarded and headroom not reset.
OutOfMemory_unguarded(s) ==
    [s EXCEPT !.nfree = 0,
              !.noom = @ + 1,
              !.nheadfree = @ + 1]

\* page_pin, lines 225-232: the anonymous mmap failed with ENOMEM.
\* nfree = 0; if (headroom) { free(headroom); headroom = NULL; }
OutOfMemory(s) ==
    [s EXCEPT !.nfree = 0,
              !.noom = @ + 1,
              !.headroom = FALSE,
              !.nheadfree = IF s.headroom THEN @ + 1 ELSE @]

\* page_pin(idx) after its call has been recorded.
\* enomem: the anonymous mmap, if attempted, fails with ENOMEM.
PinBody(s, idx, enomem) ==
    IF idx \notin Slots THEN [s EXCEPT !.ok = FALSE]
    ELSE IF HasBit(s.states[idx], PAGE_MAPPED) THEN s
    ELSE IF HasBit(s.states[idx], PAGE_ONDISK) THEN
        [s EXCEPT !.pages[idx] = s.files[idx],
                  !.states[idx] = SetBit(@, PAGE_MAPPED),
                  !.nmapped = Inc(@),
                  !.nremap = @ + 1]
    ELSE IF s.nfree # 0 THEN
        IF enomem
        THEN PinOnDisk(OutOfMemory(s), idx)
        ELSE [s EXCEPT !.pages[idx] = ZeroPage,
                       !.states[idx] = SetBit(@, PAGE_MAPPED),
                       !.nmapped = Inc(@),
                       !.nfree = Dec(@),
                       !.nanon = @ + 1]
    ELSE PinOnDisk(s, idx)

\* page_pin(idx)
page_pin(s, idx, enomem) ==
    PinBody([s EXCEPT !.pincalls = @ \cup {idx}], idx, enomem)

\* page_unpin without the test of PAGE_ONDISK: a memory-only page is
\* unmapped too.
page_unpin_anon(s, idx) ==
    IF idx \notin Slots THEN [s EXCEPT !.ok = FALSE]
    ELSE IF ~HasBit(s.states[idx], PAGE_MAPPED) THEN s
    ELSE [s EXCEPT !.pages[idx] = NoMap,
                   !.states[idx] = ClearBit(@, PAGE_MAPPED),
                   !.nmapped = Dec(@)]

\* page_unpin without nmapped--.
page_unpin_nocount(s, idx) ==
    IF idx \notin Slots THEN [s EXCEPT !.ok = FALSE]
    ELSE IF ~HasBit(s.states[idx], PAGE_MAPPED) THEN s
    ELSE IF HasBit(s.states[idx], PAGE_ONDISK) THEN
        [s EXCEPT !.pages[idx] = NoMap,
                  !.states[idx] = ClearBit(@, PAGE_MAPPED)]
    ELSE s

\* page_unpin that moves a memory-only page out to a spool file.
page_unpin_migrate(s, idx) ==
    IF idx \notin Slots THEN [s EXCEPT !.ok = FALSE]
    ELSE IF ~HasBit(s.states[idx], PAGE_MAPPED) THEN s
    ELSE IF HasBit(s.states[idx], PAGE_ONDISK) THEN
        [s EXCEPT !.pages[idx] = NoMap,
                  !.states[idx] = ClearBit(@, PAGE_MAPPED),
                  !.nmapped = Dec(@)]
    ELSE [s EXCEPT !.files[idx] = s.pages[idx],
                   !.pages[idx] = NoMap,
                   !.states[idx] = PAGE_ONDISK,
                   !.nmapped = Dec(@),
                   !.nondisk = Inc(@)]

\* page_unpin that also unlinks the spool file, leaving the slot absent.
page_unpin_drop(s, idx) ==
    IF idx \notin Slots THEN [s EXCEPT !.ok = FALSE]
    ELSE IF ~HasBit(s.states[idx], PAGE_MAPPED) THEN s
    ELSE IF HasBit(s.states[idx], PAGE_ONDISK) THEN
        [s EXCEPT !.pages[idx] = NoMap,
                  !.files[idx] = NoFile,
                  !.states[idx] = 0,
                  !.nmapped = Dec(@),
                  !.nondisk = Dec(@)]
    ELSE s

\* page_unpin(idx)
page_unpin(s, idx) ==
    IF idx \notin Slots THEN [s EXCEPT !.ok = FALSE]
    ELSE IF ~HasBit(s.states[idx], PAGE_MAPPED) THEN s
    ELSE IF HasBit(s.states[idx], PAGE_ONDISK) THEN
        [s EXCEPT !.pages[idx] = NoMap,
                  !.states[idx] = ClearBit(@, PAGE_MAPPED),
                  !.nmapped = Dec(@)]
    ELSE s

\* page_free without states[idx] &= ~PAGE_MAPPED in the memory branch.
page_free_keepbit(s, idx) ==
    IF idx \notin Slots THEN [s EXCEPT !.ok = FALSE]
    ELSE IF HasBit(s.states[idx], PAGE_ONDISK) THEN
        IF HasBit(s.states[idx], PAGE_MAPPED) THEN [s EXCEPT !.ok = FALSE]
        ELSE [s EXCEPT !.files[idx] = NoFile,
                       !.states[idx] = ClearBit(@, PAGE_ONDISK),
                       !.nondisk = Dec(@)]
    ELSE IF HasBit(s.states[idx], PAGE_MAPPED) THEN
        [s EXCEPT !.pages[idx] = NoMap,
                  !.nmapped = Dec(@),
                  !.nfree = Inc(@),
                  !.nmemfreed = @ + 1]
    ELSE s

\* page_free without states[idx] &= ~PAGE_ONDISK after the unlink.
page_free_keepondisk(s, idx) ==
    IF idx \notin Slots THEN [s EXCEPT !.ok = FALSE]
    ELSE IF HasBit(s.states[idx], PAGE_ONDISK) THEN
        IF HasBit(s.states[idx], PAGE_MAPPED) THEN [s EXCEPT !.ok = FALSE]
        ELSE [s EXCEPT !.files[idx] = NoFile,
                       !.nondisk = Dec(@)]
    ELSE IF HasBit(s.states[idx], PAGE_MAPPED) THEN
        [s EXCEPT !.pages[idx] = NoMap,
                  !.states[idx] = ClearBit(@, PAGE_MAPPED),
                  !.nmapped = Dec(@),
                  !.nfree = Inc(@),
                  !.nmemfreed = @ + 1]
    ELSE s

\* page_free with nfree++ in the spool-file branch as well.
page_free_credit(s, idx) ==
    IF idx \notin Slots THEN [s EXCEPT !.ok = FALSE]
    ELSE IF HasBit(s.states[idx], PAGE_ONDISK) THEN
        IF HasBit(s.states[idx], PAGE_MAPPED) THEN [s EXCEPT !.ok = FALSE]
        ELSE [s EXCEPT !.files[idx] = NoFile,
                       !.states[idx] = ClearBit(@, PAGE_ONDISK),
                       !.nondisk = Dec(@),
                       !.nfree = Inc(@)]
    ELSE IF HasBit(s.states[idx], PAGE_MAPPED) THEN
        [s EXCEPT !.pages[idx] = NoMap,
                  !.states[idx] = ClearBit(@, PAGE_MAPPED),
                  !.nmapped = Dec(@),
                  !.nfree = Inc(@),
                  !.nmemfreed = @ + 1]
    ELSE s

\* page_free(idx)
page_free(s, idx) ==
    IF idx \notin Slots THEN [s EXCEPT !.ok = FALSE]
    ELSE IF HasBit(s.states[idx], PAGE_ONDISK) THEN
        IF HasBit(s.states[idx], PAGE_MAPPED) THEN [s EXCEPT !.ok = FALSE]
        ELSE [s EXCEPT !.files[idx] = NoFile,
                       !.states[idx] = ClearBit(@, PAGE_ONDISK),
                       !.nondisk = Dec(@)]
    ELSE IF HasBit(s.states[idx], PAGE_MAPPED) THEN
        [s EXCEPT !.pages[idx] = NoMap,
                  !.states[idx] = ClearBit(@, PAGE_MAPPED),
                  !.nmapped = Dec(@),
                  !.nfree = Inc(@),
                  !.nmemfreed = @ + 1]
    ELSE s

\* The asserts of page_ptr(addr).
page_ptr_ok(s, addr) ==
    /\ addr.idx \in Slots
    /\ addr.off < PAGESZ
    /\ HasBit(s.states[addr.idx], PAGE_MAPPED)

\* read(STDIN_FILENO, page_ptr(addr), ...) depositing the tuple bytes: the
\* kernel stores them through the mapping; a MAP_SHARED mapping of a spool
\* file (PAGE_ONDISK) carries them to the file.
StoreBytes(s, addr, bytes) ==
    LET new == [o \in 1 .. PAGESZ |->
                   IF o > addr.off /\ o <= addr.off + Len(bytes)
                   THEN bytes[o - addr.off]
                   ELSE IF o \in DOMAIN s.pages[addr.idx]
                        THEN s.pages[addr.idx][o]
                        ELSE 0]
    IN  IF HasBit(s.states[addr.idx], PAGE_ONDISK)
        THEN [s EXCEPT !.pages[addr.idx] = new, !.files[addr.idx] = new]
        ELSE [s EXCEPT !.pages[addr.idx] = new]

\* write(STDOUT_FILENO, page_ptr(addr), ...) taking k bytes from the mapping.
\* A byte taken from beyond the mapping is not a byte of the stream: -1.
LoadBytes(s, addr, k) ==
    [i \in 1 .. k |->
        IF addr.off + i \in DOMAIN s.pages[addr.idx]
        THEN s.pages[addr.idx][addr.off + i]
        ELSE -1]

\* ntowrite without the comparison of the two idx: PAGESZ - wpos.off.
NToWrite_nocmp(r, w) == PAGESZ - w.off

\* ntowrite = (wpos.idx == rpos.idx ? rpos.off : PAGESZ) - wpos.off
NToWrite(r, w) == (IF w.idx = r.idx THEN r.off ELSE PAGESZ) - w.off

\* while (ntoread)
LoopCond_readonly == ntoread # 0

\* while (ntoread || ntowrite)
LoopCond == ntoread # 0 \/ ntowrite # 0

\* ntoread computed before rpos.off = 0 on a page crossing.
NToRead_stale(r) == IF r.off = 0 THEN 0 ELSE PAGESZ - r.off

\* ntoread = PAGESZ - rpos.off
NToRead(r) == PAGESZ - r.off

\* end of input without ntoread = 0.
EofLatch_keep == ntoread

\* ntoread = 0 on end of input
EofLatch == 0

\* nfree = memsize / PAGESZ / 2
InitialBudget == (memsize \div PAGESZ) \div 2

\* main up to line 121: tables and headroom allocated, nfree sized.  states
\* comes from malloc(TABLESZ): 64 MiB, which the allocator serves with a
\* fresh zero-filled mapping, so every slot starts as 0.
Init ==
    /\ memsize \in {2 * PAGESZ * b : b \in 0 .. MaxBudget}
    /\ slen \in 0 .. (TABLESZ * PAGESZ)
    /\ states = [i \in Slots |-> 0]
    /\ pages = [i \in Slots |-> NoMap]
    /\ files = [i \in Slots |-> NoFile]
    /\ nmapped = 0
    /\ nondisk = 0
    /\ nfree = InitialBudget
    /\ headroom = TRUE
    /\ rpos = [idx |-> 0, off |-> 0]
    /\ wpos = [idx |-> 0, off |-> 0]
    /\ ntoread = 0
    /\ ntowrite = 0
    /\ read_fds = FALSE
    /\ write_fds = FALSE
    /\ pc = "start"
    /\ status = "running"
    /\ errmsg = ""
    /\ input = <<>>
    /\ output = <<>>
    /\ eof = FALSE
    /\ nanon = 0
    /\ nspill = 0
    /\ nmemfreed = 0
    /\ nremap = 0
    /\ pincalls = {}
    /\ noom = 0
    /\ nheadfree = 0
    /\ rcross = 0
    /\ wcross = 0

\* The outcomes of the anonymous mmap in page_pin(idx): it can fail with
\* ENOMEM only where it is attempted (absent slot, nfree # 0).
MmapOutcomes(s, idx) ==
    IF idx \in Slots /\ s.states[idx] = 0 /\ s.nfree # 0
    THEN BOOLEAN
    ELSE {FALSE}

\* A failed assert aborts the process.
Abort ==
    /\ status' = "abort"
    /\ UNCHANGED <<states, pages, files, nmapped, nondisk, nfree, headroom,
                   rpos, rcross, wpos, wcross, ntoread, ntowrite, read_fds, write_fds, pc,
                   errmsg, memsize, slen, input, output, eof, nanon, nspill,
                   nmemfreed, nremap, pincalls, noom, nheadfree>>

\* err(1, ...) / errx(1, ...)
Die(msg) ==
    /\ status' = "fatal"
    /\ errmsg' = msg

\* main, lines 121-125: page_pin(0); ntoread = PAGESZ; ntowrite = 0.
Start ==
    /\ status = "running" /\ pc = "start"
    /\ \E enomem \in MmapOutcomes(Store, 0) :
         LET s == page_pin(Store, 0, enomem)
         IN  /\ SetStore(s)
             /\ ntoread' = PAGESZ
             /\ ntowrite' = 0
             /\ pc' = "loop"
    /\ UNCHANGED <<rpos, rcross, wpos, wcross, read_fds, write_fds, status, errmsg, memsize,
                   slen, input, output, eof>>

\* The loop head with FD_SET(STDIN_FILENO, &read_fds) not guarded by ntoread.
Select_readalways ==
    /\ status = "running" /\ pc = "loop"
    /\ LoopCond
    /\ \E r, w \in BOOLEAN :
         /\ w => ntowrite # 0
         /\ r \/ w
         /\ read_fds' = r
         /\ write_fds' = w
    /\ pc' = "read"
    /\ UNCHANGED <<states, pages, files, nmapped, nondisk, nfree, headroom,
                   rpos, rcross, wpos, wcross, ntoread, ntowrite, status, errmsg, memsize,
                   slen, input, output, eof, nanon, nspill, nmemfreed, nremap, pincalls, noom, nheadfree>>

\* main, lines 127-141: the loop test holds; the fd_sets are built and
\* select returns with at least one of the requested descriptors ready.
Select ==
    /\ status = "running" /\ pc = "loop"
    /\ LoopCond
    /\ \E r, w \in BOOLEAN :
         /\ r => ntoread # 0
         /\ w => ntowrite # 0
         /\ r \/ w
         /\ read_fds' = r
         /\ write_fds' = w
    /\ pc' = "read"
    /\ UNCHANGED <<states, pages, files, nmapped, nondisk, nfree, headroom,
                   rpos, rcross, wpos, wcross, ntoread, ntowrite, status, errmsg, memsize,
                   slen, input, output, eof, nanon, nspill, nmemfreed, nremap, pincalls, noom, nheadfree>>

\* main, line 127 and 186: the loop test fails; return 0.
Exit ==
    /\ status = "running" /\ pc = "loop"
    /\ ~LoopCond
    /\ status' = "exit0"
    /\ UNCHANGED <<states, pages, files, nmapped, nondisk, nfree, headroom,
                   rpos, rcross, wpos, wcross, ntoread, ntowrite, read_fds, write_fds, pc,
                   errmsg, memsize, slen, input, output, eof, nanon, nspill,
                   nmemfreed, nremap, pincalls, noom, nheadfree>>

\* The page-crossing test taken one byte early.
Crossed_early(off) == off >= PAGESZ - 1

\* if ((rpos.off += nread) == PAGESZ), if ((wpos.off += nwritten) == PAGESZ)
Crossed(off) == off = PAGESZ

\* The table-size test written with > instead of >=.
OutOfPages_off(idx) == idx > TABLESZ

\* if (++rpos.idx >= TABLESZ) errx(1, "out of pages")
OutOfPages(idx) == idx >= TABLESZ

\* The stdin side's crossing without any page_unpin.
UnpinOnCross_skip(s) == s

\* page_unpin(rpos.idx) without the test rpos.idx != wpos.idx.
UnpinOnCross_always(s) == page_unpin(s, rpos.idx)

\* if (rpos.idx != wpos.idx) page_unpin(rpos.idx)
UnpinOnCross(s) ==
    IF rpos.idx # wpos.idx THEN page_unpin(s, rpos.idx) ELSE s

\* main, lines 151-162: read() returned k > 0 bytes.
ReadAdvance(k, enomem) ==
    LET bytes == [i \in 1 .. k |-> Stream(Len(input) + i)]
        s0 == StoreBytes(Store, rpos, bytes)
        off1 == rpos.off + k
        s1 == UnpinOnCross(s0)
        s2 == page_pin(s1, rpos.idx + 1, enomem)
    IN  /\ input' = input \o bytes
        /\ IF ~Crossed(off1) THEN
               /\ SetStore(s0)
               /\ rpos' = [rpos EXCEPT !.off = off1]
               /\ ntoread' = NToRead(rpos')
               /\ pc' = "write"
               /\ UNCHANGED <<status, errmsg, rcross>>
           ELSE IF OutOfPages(rpos.idx + 1) THEN
               /\ SetStore(s1)
               /\ rpos' = [idx |-> rpos.idx + 1, off |-> off1]
               /\ rcross' = rcross + 1
               /\ Die("out of pages")
               /\ UNCHANGED <<ntoread, pc>>
           ELSE IF ~s2.ok THEN
               /\ SetStore(s2)
               /\ rpos' = [idx |-> rpos.idx + 1, off |-> off1]
               /\ rcross' = rcross + 1
               /\ status' = "abort"
               /\ UNCHANGED <<ntoread, pc, errmsg>>
           ELSE
               /\ SetStore(s2)
               /\ rpos' = [idx |-> rpos.idx + 1, off |-> 0]
               /\ rcross' = rcross + 1
               /\ ntoread' = NToRead(rpos')
               /\ pc' = "write"
               /\ UNCHANGED <<status, errmsg>>
        /\ UNCHANGED <<wpos, wcross, ntowrite, read_fds, write_fds, memsize,
                       slen, output, eof>>

\* main, lines 143-164.  The producer's stream has slen bytes: read() returns
\* between 1 and ntoread of those left, and 0 once none is left.
ReadStdin ==
    /\ status = "running" /\ pc = "read"
    /\ IF ~read_fds THEN
           /\ pc' = "write"
           /\ UNCHANGED <<states, pages, files, nmapped, nondisk, nfree,
                          headroom, rpos, rcross, wpos, wcross, ntoread, ntowrite, read_fds,
                          write_fds, status, errmsg, memsize, slen, input,
                          output, eof, nanon, nspill, nmemfreed, nremap, pincalls, noom, nheadfree>>
       ELSE IF ~page_ptr_ok(Store, rpos) THEN Abort
       ELSE IF Len(input) = slen THEN
           /\ ntoread' = EofLatch
           /\ eof' = TRUE
           /\ pc' = "write"
           /\ UNCHANGED <<states, pages, files, nmapped, nondisk, nfree,
                          headroom, rpos, rcross, wpos, wcross, ntowrite, read_fds,
                          write_fds, status, errmsg, memsize, slen, input,
                          output, nanon, nspill, nmemfreed, nremap, pincalls, noom, nheadfree>>
       ELSE \E k \in 1 .. Min(ntoread, slen - Len(input)) :
              \E enomem \in (IF Crossed(rpos.off + k)
                              THEN MmapOutcomes(Store, rpos.idx + 1)
                              ELSE {FALSE}) :
                 ReadAdvance(k, enomem)

\* main, lines 172-179: write() returned k bytes.
WriteAdvance(k, enomem) ==
    LET off1 == wpos.off + k
        s1 == page_free(page_unpin(Store, wpos.idx), wpos.idx)
        s2 == page_pin(s1, wpos.idx + 1, enomem)
        w1 == IF Crossed(off1)
              THEN [idx |-> wpos.idx + 1, off |-> 0]
              ELSE [wpos EXCEPT !.off = off1]
    IN  /\ output' = output \o LoadBytes(Store, wpos, k)
        /\ IF ~Crossed(off1) THEN
               /\ wpos' = w1
               /\ ntowrite' = NToWrite(rpos, w1)
               /\ pc' = "loop"
               /\ UNCHANGED <<states, pages, files, nmapped, nondisk, nfree,
                              headroom, nanon, nspill, nmemfreed, nremap,
                              pincalls, noom, nheadfree, status, wcross>>
           ELSE IF ~s2.ok THEN
               /\ SetStore(s2)
               /\ wcross' = wcross + 1
               /\ status' = "abort"
               /\ UNCHANGED <<wpos, ntowrite, pc>>
           ELSE
               /\ SetStore(s2)
               /\ wpos' = w1
               /\ wcross' = wcross + 1
               /\ ntowrite' = NToWrite(rpos, w1)
               /\ pc' = "loop"
               /\ UNCHANGED status
        /\ UNCHANGED <<rpos, rcross, ntoread, read_fds, write_fds, errmsg,
                       memsize, slen, input, eof>>

\* main, lines 166-183, with the recomputation of ntowrite that ends the
\* iteration.  write() accepts between 1 and ntowrite bytes.
WriteStdout ==
    /\ status = "running" /\ pc = "write"
    /\ IF ~write_fds THEN
           /\ ntowrite' = NToWrite(rpos, wpos)
           /\ pc' = "loop"
           /\ UNCHANGED <<states, pages, files, nmapped, nondisk, nfree,
                          headroom, rpos, rcross, wpos, wcross, ntoread, read_fds, write_fds,
                          status, errmsg, memsize, slen, input, output, eof,
                          nanon, nspill, nmemfreed, nremap, pincalls, noom, nheadfree>>
       ELSE IF ~page_ptr_ok(Store, wpos) THEN Abort
       ELSE \E k \in 1 .. ntowrite :
              \E enomem \in (IF Crossed(wpos.off + k)
                              THEN MmapOutcomes(
                                       page_free(page_unpin(Store, wpos.idx),
                                                 wpos.idx),
                                       wpos.idx + 1)
                              ELSE {FALSE}) :
                 WriteAdvance(k, enomem)

\* A system call fails and main (or the page store working for it) leaves
\* through err(1, ...).
ErrStart ==
    /\ status = "running" /\ pc = "start"
    /\ Die("page_pin")
    /\ UNCHANGED <<states, pages, files, nmapped, nondisk, nfree, headroom,
                   rpos, rcross, wpos, wcross, ntoread, ntowrite, read_fds, write_fds, pc,
                   memsize, slen, input, output, eof, nanon, nspill,
                   nmemfreed, nremap, pincalls, noom, nheadfree>>

ErrSelect ==
    /\ status = "running" /\ pc = "loop"
    /\ LoopCond
    /\ Die("select")
    /\ UNCHANGED <<states, pages, files, nmapped, nondisk, nfree, headroom,
                   rpos, rcross, wpos, wcross, ntoread, ntowrite, read_fds, write_fds, pc,
                   memsize, slen, input, output, eof, nanon, nspill,
                   nmemfreed, nremap, pincalls, noom, nheadfree>>

ErrRead ==
    /\ status = "running" /\ pc = "read" /\ read_fds
    /\ Die("read")
    /\ UNCHANGED <<states, pages, files, nmapped, nondisk, nfree, headroom,
                   rpos, rcross, wpos, wcross, ntoread, ntowrite, read_fds, write_fds, pc,
                   memsize, slen, input, output, eof, nanon, nspill,
                   nmemfreed, nremap, pincalls, noom, nheadfree>>

ErrWrite ==
    /\ status = "running" /\ pc = "write" /\ write_fds
    /\ Die("write")
    /\ UNCHANGED <<states, pages, files, nmapped, nondisk, nfree, headroom,
                   rpos, rcross, wpos, wcross, ntoread, ntowrite, read_fds, write_fds, pc,
                   memsize, slen, input, output, eof, nanon, nspill,
                   nmemfreed, nremap, pincalls, noom, nheadfree>>

\* The steps of a run in which no system call fails fatally.
NextOK == Start \/ Select \/ ReadStdin \/ WriteStdout \/ Exit

Next == NextOK \/ ErrStart \/ ErrSelect \/ ErrRead \/ ErrWrite

Spec == Init /\ [][Next]_vars

\* No system call fails fatally, and the single flow of control keeps running
\* (select returns: the producer sends its bytes and closes, and stdout is
\* eventually reported writable when it is the only descriptor waited for).
LiveSpec == Init /\ [][NextOK]_vars /\ WF_vars(NextOK)

TypeOK ==
    /\ states \in [Slots -> 0 .. 3]
    /\ nmapped \in 0 .. SIZE_MAX
    /\ nondisk \in 0 .. SIZE_MAX
    /\ nfree \in 0 .. SIZE_MAX
    /\ ntoread \in 0 .. PAGESZ
    /\ ntowrite \in 0 .. PAGESZ
    /\ pc \in {"start", "loop", "read", "write"}
    /\ status \in {"running", "exit0", "fatal", "abort"}

(***************************************************************************)
(* Vocabulary of the properties.                                           *)
(***************************************************************************)
Mapped(i) == HasBit(states[i], PAGE_MAPPED)
OnDisk(i) == HasBit(states[i], PAGE_ONDISK)

\* a <= b in lexicographic order on (idx, off)
LexLE(a, b) == a.idx < b.idx \/ (a.idx = b.idx /\ a.off <= b.off)

\* The whole stream of the producer.
WholeStream == [i \in 1 .. slen |-> Stream(i)]

IsPrefix(a, b) == Len(a) <= Len(b) /\ \A i \in 1 .. Len(a) : a[i] = b[i]

\* The top of the while loop (also the state main returns from).
Boundary == pc = "loop"

Running == status = "running"

(***************************************************************************)
(* C1.  Byte-perfect passthrough.                                          *)
(***************************************************************************)

\* C1 as stated: for a stream of at most TABLESZ * PAGESZ bytes, a run in
\* which no system call fails does not end in an error, and when it has
\* exited the bytes written to stdout are the stream.
C1_PassthroughUpToTableSize ==
    /\ slen <= TABLESZ * PAGESZ => status \in {"running", "exit0"}
    /\ status = "exit0" => output = WholeStream

\* C1 amended: the same for a stream of fewer than TABLESZ * PAGESZ bytes;
\* a stream of exactly TABLESZ * PAGESZ bytes never reaches exit 0 (the read
\* that fills the last slot ends the run with "out of pages").
C1_Passthrough ==
    /\ slen < TABLESZ * PAGESZ => status \in {"running", "exit0"}
    /\ status = "exit0" => output = WholeStream /\ slen < TABLESZ * PAGESZ
    /\ status = "fatal" => errmsg = "out of pages" /\ Len(input) = TABLESZ * PAGESZ

\* A clean exit after the longest admissible stream, part of it spooled on
\* disk and mapped again for the consumer.
C1_Witness ==
    /\ status = "exit0"
    /\ slen = TABLESZ * PAGESZ - 1
    /\ output = WholeStream
    /\ nremap > 0

(***************************************************************************)
(* C2.  Order preservation.                                                *)
(***************************************************************************)

\* C2: in every reachable state, also one left by err/errx, the bytes written
\* to stdout so far are a prefix of the bytes read from stdin so far.
C2_OutputIsPrefixOfInput == IsPrefix(output, input)

\* A fatal exit after bytes of a page that was spilled, unmapped and mapped
\* again have been written.
C2_Witness ==
    /\ status = "fatal"
    /\ nremap > 0
    /\ wpos.idx > 0 /\ wpos.off > 0
    /\ OnDisk(wpos.idx)
    /\ Len(output) < Len(input)

(***************************************************************************)
(* C3.  Spool cleanup on clean exit.                                       *)
(***************************************************************************)

\* C3: after exit 0 no slot is PAGE_ONDISK, nondisk is 0 and no spool file
\* is left.
C3_NoSpoolFileAtExit ==
    status = "exit0" =>
        /\ nondisk = 0
        /\ \A i \in Slots : ~OnDisk(i) /\ files[i] = NoFile

(***************************************************************************)
(* C4.  Sticky spill.                                                      *)
(***************************************************************************)

\* C4 as stated: once a page has been materialised through the ondisk path,
\* no later page is materialised in anonymous memory.
C4_StickySpill == [][nspill > 0 => nanon' = nanon]_vars

\* C4 amended: a pin of an absent slot takes the ondisk path whenever nfree is
\* 0 at the call, and takes the memory path only with nfree > 0 (consuming
\* one unit of it); after a spill nfree is 0 until page_free of a memory-only
\* page raises it again.
C4_SpillWhileNoBudget ==
    [][/\ nanon' # nanon =>
            /\ nfree > 0 /\ nfree' = nfree - 1
            /\ nanon' = nanon + 1 /\ nspill' = nspill
       /\ (nfree = 0 /\ (nanon' # nanon \/ nspill' # nspill)) =>
            nspill' = nspill + 1 /\ nanon' = nanon
       /\ (nspill' # nspill) => nfree' = 0
       /\ (nspill > 0 /\ nfree > 0) => nmemfreed > 0]_vars

\* A page went to anonymous memory after an earlier one had been spilled:
\* with a budget of one page, slot 0 took it, slot 1 was spilled, and a later
\* slot was placed in memory again.
C4_Witness ==
    /\ InitialBudget = 1
    /\ nspill > 0
    /\ nanon = 2

(***************************************************************************)
(* C5.  Residency.                                                         *)
(***************************************************************************)

\* C5 as stated: at the top of the loop slot i is PAGE_MAPPED iff
\* wpos.idx <= i <= rpos.idx.
C5_ExactResidency ==
    Boundary =>
        \A i \in Slots : Mapped(i) <=> (wpos.idx <= i /\ i <= rpos.idx)

\* C5 amended: at the top of the loop slot i is PAGE_MAPPED iff
\* wpos.idx <= i <= rpos.idx and i is one of the two cursors' slots or a
\* memory-only page; a file-backed page strictly between the cursors is
\* PAGE_ONDISK and not mapped.
C5_Residency ==
    Boundary =>
        \A i \in Slots :
            /\ Mapped(i) <=>
                  /\ wpos.idx <= i /\ i <= rpos.idx
                  /\ i \in {wpos.idx, rpos.idx} \/ ~OnDisk(i)
            /\ (wpos.idx < i /\ i < rpos.idx) => (Mapped(i) \/ OnDisk(i))

\* Between the cursors lie a memory-only page (mapped) and a file-backed
\* page (not mapped).
C5_Witness ==
    /\ Boundary /\ Running
    /\ \E i, j \in Slots :
          /\ wpos.idx < i /\ i < rpos.idx
          /\ wpos.idx < j /\ j < rpos.idx
          /\ states[i] = PAGE_MAPPED
          /\ states[j] = PAGE_ONDISK

(***************************************************************************)
(* C6.  Counter consistency.                                               *)
(***************************************************************************)

\* The counters of a page store agree with its table.
CountersAgree(s) ==
    /\ s.nmapped = Cardinality({i \in Slots : HasBit(s.states[i], PAGE_MAPPED)})
    /\ s.nondisk = Cardinality({i \in Slots : HasBit(s.states[i], PAGE_ONDISK)})
    /\ s.nfree <= InitialBudget

\* C6: in every state nmapped is the number of PAGE_MAPPED slots, nondisk
\* the number of PAGE_ONDISK slots, and nfree has not wrapped below zero (it
\* is at most the budget it started with); the same holds after each return
\* of page_unpin, page_free and page_pin inside the page crossing that the
\* pending read() or write() may perform.
C6_CountersConsistent ==
    /\ CountersAgree(Store)
    /\ (Running /\ pc = "read" /\ rpos.idx # wpos.idx) =>
          CountersAgree(page_unpin(Store, rpos.idx))
    /\ (Running /\ pc = "read" /\ rpos.idx + 1 < TABLESZ) =>
          \A e \in BOOLEAN :
             CountersAgree(page_pin(
                 IF rpos.idx # wpos.idx THEN page_unpin(Store, rpos.idx)
                 ELSE Store, rpos.idx + 1, e))
    /\ (Running /\ pc = "write" /\ wpos.idx < rpos.idx) =>
          /\ CountersAgree(page_unpin(Store, wpos.idx))
          /\ CountersAgree(page_free(page_unpin(Store, wpos.idx), wpos.idx))
          /\ \A e \in BOOLEAN :
                CountersAgree(page_pin(
                    page_free(page_unpin(Store, wpos.idx), wpos.idx),
                    wpos.idx + 1, e))

\* Counters that differ from each other: more pages on disk than mapped,
\* and budget given back by page_free.
C6_Witness ==
    /\ Boundary /\ Running
    /\ nondisk = 3
    /\ nmapped = 2
    /\ nfree = 1

(***************************************************************************)
(* C7.  Cursor discipline.                                                 *)
(***************************************************************************)

\* C7: neither cursor ever moves backwards; at the top of the loop both off
\* are below PAGESZ and wpos <= rpos; and the count handed to write(), which
\* was computed before this iteration's read(), does not exceed the bytes
\* between wpos and rpos in wpos's page.
C7_CursorDiscipline ==
    /\ [][LexLE(rpos, rpos') /\ LexLE(wpos, wpos')]_vars
    /\ [](Boundary =>
            /\ rpos.off \in 0 .. (PAGESZ - 1)
            /\ wpos.off \in 0 .. (PAGESZ - 1)
            /\ rpos.idx \in Slots /\ wpos.idx \in Slots
            /\ LexLE(wpos, rpos))
    /\ []((pc = "write" /\ Running) =>
            /\ LexLE(wpos, rpos)
            /\ ntowrite <= NToWrite(rpos, wpos))

\* write() is about to be called with a count computed before the read()
\* of the same iteration moved rpos into the next page.
C7_Witness ==
    /\ pc = "write" /\ Running /\ write_fds
    /\ ntowrite < NToWrite(rpos, wpos)
    /\ rpos.idx > wpos.idx
    /\ rpos.off = 0

(***************************************************************************)
(* C8.  Termination condition.                                             *)
(***************************************************************************)

\* C8: main returns 0 only from a state in which end of input has been seen
\* and rpos = wpos (so every byte read has been written), and from the top
\* of the loop in such a state it does nothing else than return 0.
C8_ExitExactlyWhenDrained ==
    /\ [][status' = "exit0" => (Boundary /\ eof /\ rpos = wpos)]_vars
    /\ [][(Running /\ Boundary /\ eof /\ rpos = wpos) => status' = "exit0"]_vars
    /\ [](status = "exit0" => eof /\ Len(output) = Len(input))

\* A clean exit after more than a page of data.
C8_Witness ==
    /\ status = "exit0"
    /\ eof
    /\ rpos = wpos
    /\ rpos.idx > 0 /\ rpos.off > 0

(***************************************************************************)
(* C9.  Eventual drain.                                                    *)
(***************************************************************************)

\* C9: when no system call fails and the stream has fewer than
\* TABLESZ * PAGESZ bytes, main eventually returns 0; and at the top of the
\* loop, unless end of input has been seen and rpos = wpos, select is asked
\* about at least one descriptor.
C9_EventualDrain ==
    /\ (slen < TABLESZ * PAGESZ) => <>(status = "exit0")
    /\ []((Running /\ Boundary /\ ~(eof /\ rpos = wpos)) =>
              (ntoread # 0 \/ ntowrite # 0))

\* The consumer was served only after the producer had closed: end of input
\* seen with the whole stream still buffered.
C9_Witness ==
    /\ Running /\ Boundary
    /\ eof
    /\ output = <<>>
    /\ Len(input) = TABLESZ * PAGESZ - 1
    /\ ntoread = 0 /\ ntowrite # 0

(***************************************************************************)
(* C10.  The producer is never blocked by the consumer.                    *)
(***************************************************************************)

\* C10: at the top of the loop, until end of input has been seen, ntoread is
\* PAGESZ - rpos.off > 0 (stdin is in the read set) and rpos's page is mapped,
\* whatever wpos is; select may then report stdin alone, and a read() of a
\* byte that is left is taken in.
C10_ProducerNeverBlocked ==
    /\ (Running /\ Boundary /\ ~eof) =>
          /\ ntoread = PAGESZ - rpos.off
          /\ ntoread > 0
          /\ page_ptr_ok(Store, rpos)
          /\ ENABLED (Select /\ read_fds' /\ ~write_fds')
    /\ (Running /\ pc = "read" /\ read_fds /\ Len(input) < slen) =>
          ENABLED (ReadStdin /\ Len(input') > Len(input))

\* stdout never writable: the whole table but its last byte filled, first in
\* memory, then on disk, nothing written.
C10_Witness ==
    /\ Running /\ Boundary /\ ~eof
    /\ output = <<>>
    /\ wpos = [idx |-> 0, off |-> 0]
    /\ rpos = [idx |-> TABLESZ - 1, off |-> PAGESZ - 1]
    /\ nanon > 0 /\ nspill > 0

(***************************************************************************)
(* C11.  Released behind the stdout-side cursor.                           *)
(***************************************************************************)

\* C11: at the top of the loop every slot below wpos.idx is absent: neither
\* PAGE_MAPPED nor PAGE_ONDISK, its mapping gone and its spool file unlinked.
C11_ReleasedBehind ==
    Boundary =>
        \A i \in Slots :
            i < wpos.idx =>
                /\ states[i] = 0
                /\ pages[i] = NoMap
                /\ files[i] = NoFile

\* wpos has left a memory-only page and a spilled page.
C11_Witness ==
    /\ Boundary /\ Running
    /\ wpos.idx >= 2
    /\ nmemfreed > 0
    /\ nspill > nondisk

(***************************************************************************)
(* C12.  Number of page crossings.                                         *)
(***************************************************************************)

\* C12: when main has returned 0 after a stream of slen bytes, rpos and wpos
\* have each crossed exactly slen / PAGESZ pages (rounded down; one each for
\* slen = PAGESZ), page_pin has been called for the slots 0 .. slen / PAGESZ
\* and no other; in particular during a run on the empty stream page_pin is
\* never called with an index other than 0.
C12_CrossingCount ==
    /\ status = "exit0" =>
          /\ rcross = slen \div PAGESZ
          /\ wcross = slen \div PAGESZ
          /\ pincalls = 0 .. (slen \div PAGESZ)
    /\ slen = 0 => pincalls \subseteq {0} /\ rcross = 0 /\ wcross = 0

\* A clean exit after exactly one page of input.
C12_Witness ==
    /\ status = "exit0"
    /\ slen = PAGESZ
    /\ rcross = 1 /\ wcross = 1
    /\ pincalls = {0, 1}

(***************************************************************************)
(* C13.  The asserts never fire.                                           *)
(***************************************************************************)

\* C13: no run aborts on an assert.  page_ptr(rpos) and page_ptr(wpos) are
\* called with a valid index, off < PAGESZ and a mapped slot; once page 0 is
\* pinned wpos's page is mapped in every state, so rpos's page crossing never
\* unmaps it; page_pin is only ever called with an index below TABLESZ; and
\* in a page crossing of wpos, page_free finds the slot not mapped if it is
\* PAGE_ONDISK and the next index is below TABLESZ.
C13_NoAssertFires ==
    /\ status # "abort"
    /\ pincalls \subseteq Slots
    /\ (Running /\ pc = "read" /\ read_fds) => page_ptr_ok(Store, rpos)
    /\ (Running /\ pc = "write" /\ write_fds) => page_ptr_ok(Store, wpos)
    /\ (Running /\ pc # "start") =>
          /\ wpos.idx \in Slots
          /\ Mapped(wpos.idx)
          /\ pages[wpos.idx] # NoMap
    /\ (Running /\ pc = "write" /\ write_fds
           /\ Crossed(wpos.off + ntowrite)) =>
          /\ wpos.idx + 1 \in Slots
          /\ page_unpin(Store, wpos.idx).ok
          /\ page_free(page_unpin(Store, wpos.idx), wpos.idx).ok
          /\ ~HasBit(page_unpin(Store, wpos.idx).states[wpos.idx],
                     PAGE_MAPPED)
             \/ ~OnDisk(wpos.idx)

\* rpos has crossed out of a file-backed page that wpos is still in; the
\* page was left mapped and write() is about to take bytes from it.
C13_Witness ==
    /\ Running /\ pc = "write" /\ write_fds
    /\ rpos.idx > wpos.idx
    /\ states[wpos.idx] = PAGE_MAPPED + PAGE_ONDISK
    /\ nremap = 0
    /\ wpos.off > 0

(***************************************************************************)
(* C14.  Out-of-memory recovery in page_pin.                               *)
(***************************************************************************)

\* C14: page_pin of an absent slot with nfree # 0 whose anonymous mmap fails
\* with ENOMEM returns with no assert failed and no err: nfree is 0, the
\* headroom is released (free(headroom) is called iff it was still held),
\* the slot is PAGE_MAPPED | PAGE_ONDISK over a fresh spool file, nmapped and
\* nondisk are one larger each and no other slot has changed.  Over a run
\* the step in which it happens leaves main running, the headroom is freed
\* at most once, and once released it is never held again.
C14_OomRecovery ==
    /\ [](\A idx \in Slots :
            (states[idx] = 0 /\ nfree # 0) =>
                LET s == page_pin(Store, idx, TRUE)
                IN  /\ s.ok
                    /\ s.nfree = 0
                    /\ s.noom = noom + 1
                    /\ ~s.headroom
                    /\ s.nheadfree = nheadfree + (IF headroom THEN 1 ELSE 0)
                    /\ s.states[idx] = PAGE_MAPPED + PAGE_ONDISK
                    /\ s.files[idx] = ZeroPage /\ s.pages[idx] = ZeroPage
                    /\ s.nmapped = nmapped + 1
                    /\ s.nondisk = nondisk + 1
                    /\ s.nanon = nanon
                    /\ \A j \in Slots \ {idx} :
                          /\ s.states[j] = states[j]
                          /\ s.pages[j] = pages[j]
                          /\ s.files[j] = files[j])
    /\ [][noom' # noom =>
            /\ status' = "running"
            /\ nfree # 0 /\ nfree' = 0
            /\ ~headroom'
            /\ nspill' = nspill + 1
            /\ nondisk' = nondisk + 1
            /\ states'[rpos'.idx] = PAGE_MAPPED + PAGE_ONDISK]_vars
    /\ [][headroom' => headroom]_vars
    /\ [](nheadfree <= 1 /\ (headroom <=> nheadfree = 0))
    /\ [](noom > 0 => ~headroom)

\* The anonymous mmap has failed twice in one run; the headroom was freed
\* the first time only.
C14_Witness ==
    /\ Running
    /\ noom = 2
    /\ nheadfree = 1
    /\ ~headroom

(***************************************************************************)
(* C15.  Exhaustion of the page table.                                     *)
(***************************************************************************)

\* C15: the run is in the fatal "out of pages" state exactly when the bytes
\* read from stdin number TABLESZ * PAGESZ, and never more are read; this
\* holds whatever the stdout side has drained and freed, since rpos.idx only
\* grows.  page_pin is never called with index TABLESZ, the fatal state has
\* undelivered bytes between the cursors, and no step follows it, so they
\* are never written.
C15_OutOfPages ==
    /\ [](Len(input) <= TABLESZ * PAGESZ)
    /\ []((errmsg = "out of pages") <=> (Len(input) = TABLESZ * PAGESZ))
    /\ [](errmsg = "out of pages" =>
            /\ status = "fatal"
            /\ rpos.idx = TABLESZ
            /\ rcross = TABLESZ
            /\ wpos.idx < TABLESZ
            /\ Len(output) < Len(input))
    /\ [](TABLESZ \notin pincalls)
    /\ [](\A i \in Slots : i < wpos.idx => states[i] = 0)
    /\ [][status # "fatal"]_vars
    /\ [][rpos'.idx >= rpos.idx]_vars

\* The table is exhausted although the stdout side has already drained and
\* freed a page; part of the input is still buffered.
C15_Witness ==
    /\ status = "fatal"
    /\ errmsg = "out of pages"
    /\ wpos.idx >= 1
    /\ states[0] = 0
    /\ Len(output) >= PAGESZ
    /\ Len(output) < Len(input)

(***************************************************************************)
(* C16.  Memory-resident pages are not migrated.                           *)
(***************************************************************************)

\* C16: page_unpin of a slot whose state is PAGE_MAPPED alone changes
\* nothing, no slot and no counter; and in every step such a slot either
\* keeps exactly that state, with no spool file, or it is the slot wpos.idx
\* that the stdout side leaves in this step, freed by page_free into the
\* absent state with nfree credited.
C16_NoMigration ==
    /\ [](\A i \in Slots :
            states[i] = PAGE_MAPPED =>
                /\ page_unpin(Store, i) = Store
                /\ files[i] = NoFile)
    /\ [][\A i \in Slots :
            states[i] = PAGE_MAPPED =>
                \/ /\ states'[i] = PAGE_MAPPED
                   /\ files'[i] = NoFile
                \/ /\ states'[i] = 0
                   /\ i = wpos.idx
                   /\ wpos'.idx = i + 1
                   /\ nmemfreed' = nmemfreed + 1
                   /\ nondisk' = nondisk]_vars

\* The stdin side has left slot 1, calling page_unpin on it, and the slot is
\* still memory-resident while the stdout side is on slot 0.
C16_Witness ==
    /\ Boundary /\ Running
    /\ wpos.idx = 0
    /\ rpos.idx >= 2
    /\ states[1] = PAGE_MAPPED
    /\ pages[1] # NoMap

(***************************************************************************)
(* C17.  The end-of-input latch.                                           *)
(***************************************************************************)

C18_BudgetConservation ==
    LET memonly == Cardinality({i \in Slots : states[i] = PAGE_MAPPED})
    IN  /\ memonly = nanon - nmemfreed
        /\ memonly + nfree <= InitialBudget
        /\ noom = 0 => memonly + nfree = InitialBudget
        /\ memonly <= InitialBudget

\* An anonymous mmap failed, nfree went to 0, and page_free has since made
\* it positive again; part of the initial budget is lost.
C18_Witness ==
    /\ Running
    /\ noom > 0
    /\ nmemfreed > 0
    /\ nfree > 0
    /\ Cardinality({i \in Slots : states[i] = PAGE_MAPPED}) + nfree
          < InitialBudget

(***************************************************************************)
(* C19.  At most two spilled pages are mapped.                             *)
(***************************************************************************)

\* C19: at the head of every loop iteration a slot that is both PAGE_MAPPED
\* and PAGE_ONDISK is the slot of wpos or the slot of rpos; hence at most
\* two file-backed pages are mapped, and nmapped is at most the number of
\* memory-only slots plus two, whatever nondisk is.
C19_SpilledMappedAtCursors ==
    Boundary =>
        LET both    == {i \in Slots : Mapped(i) /\ OnDisk(i)}
            memonly == {i \in Slots : states[i] = PAGE_MAPPED}
        IN  /\ both \subseteq {wpos.idx, rpos.idx}
            /\ Cardinality(both) <= 2
            /\ nmapped = Cardinality(memonly) + Cardinality(both)
            /\ nmapped <= Cardinality(memonly) + 2

\* Every slot of the table is spooled on disk and only the two under the
\* cursors are mapped.
C19_Witness ==
    /\ Boundary /\ Running
    /\ nondisk = TABLESZ
    /\ nmapped = 2
    /\ wpos.idx = 0
    /\ rpos.idx = TABLESZ - 1
    /\ states[0] = PAGE_MAPPED + PAGE_ONDISK
    /\ states[TABLESZ - 1] = PAGE_MAPPED + PAGE_ONDISK
    /\ \A i \in Slots : (0 < i /\ i < TABLESZ - 1) => states[i] = PAGE_ONDISK

(***************************************************************************)
(* C20.  Pages are allocated by the stdin side only.                       *)
(***************************************************************************)

\* C20: page_pin(0) at the start and every page_pin(rpos.idx) at a crossing
\* of the stdin side find the slot absent (state 0) and leave it a fresh
\* zero page, anonymous or over a new spool file: exactly one of nanon and
\* nspill grows by one.  Every page_pin(++wpos.idx) at a crossing of the
\* stdout side finds, once the page left has been unpinned and freed, a slot
\* that is PAGE_MAPPED or PAGE_ONDISK; its result does not depend on whether
\* an anonymous mmap would fail, it creates or truncates no file, allocates
\* no anonymous page, leaves nfree and nondisk as page_free left them, and
\* the page it maps holds the bytes stored there before.
C20_AllocationByStdinSide ==
    /\ [][(pc = "start" /\ pc' = "loop") =>
            /\ states[0] = 0
            /\ states'[0] \in {PAGE_MAPPED, PAGE_MAPPED + PAGE_ONDISK}
            /\ pages'[0] = ZeroPage
            /\ nanon' + nspill' = nanon + nspill + 1
            /\ nremap' = nremap]_vars
    /\ [][(rcross' # rcross /\ status' = "running") =>
            /\ rpos'.idx = rpos.idx + 1
            /\ states[rpos'.idx] = 0
            /\ states'[rpos'.idx] \in {PAGE_MAPPED, PAGE_MAPPED + PAGE_ONDISK}
            /\ pages'[rpos'.idx] = ZeroPage
            /\ nanon' + nspill' = nanon + nspill + 1
            /\ nanon' >= nanon /\ nspill' >= nspill
            /\ nremap' = nremap]_vars
    /\ [][wcross' # wcross =>
            LET s1 == page_free(page_unpin(Store, wpos.idx), wpos.idx)
                n  == wpos.idx + 1
            IN  /\ status' = "running"
                /\ wpos'.idx = n
                /\ n \in Slots
                /\ s1.states[n] # 0
                /\ page_pin(s1, n, TRUE) = page_pin(s1, n, FALSE)
                /\ nanon' = nanon /\ nspill' = nspill /\ noom' = noom
                /\ headroom' = headroom
                /\ nfree' = s1.nfree
                /\ nondisk' = s1.nondisk
                /\ files' = s1.files
                /\ states'[n] = SetBit(s1.states[n], PAGE_MAPPED)
                /\ pages'[n] = IF HasBit(s1.states[n], PAGE_MAPPED)
                               THEN pages[n] ELSE files[n]
                /\ nremap' = IF HasBit(s1.states[n], PAGE_MAPPED)
                             THEN nremap ELSE nremap + 1]_vars

\* The stdout side has entered a page that was spooled and unmapped: its
\* pin mapped the existing file again.
C20_Witness ==
    /\ Running /\ Boundary
    /\ wcross >= 1
    /\ nremap >= 1
    /\ wpos.idx < rpos.idx
    /\ states[wpos.idx] = PAGE_MAPPED + PAGE_ONDISK
    /\ files[wpos.idx] # ZeroPage
    /\ pages[wpos.idx] = files[wpos.idx]

=============================================================================
